---------------------------- MODULE Spec2Model ----------------------------
(***************************************************************************)
(* Model of hudhook's input translation (src/renderer/input.rs).           *)
(*                                                                         *)
(* The window procedure shim imgui_wnd_proc_impl decodes a window message  *)
(* into InputChange values, sends them into an mpsc channel and then       *)
(* either swallows the message or forwards it to the original window       *)
(* procedure.  The consumer takes the changes out of the channel and folds *)
(* them into the imgui Io snapshot with update_io.                         *)
(*                                                                         *)
(* Representation of machine values:                                       *)
(*  - WPARAM (usize) and LPARAM (isize) are records [lo, hi, top]: lo is   *)
(*    bits 0..15, hi is bits 16..31 and top is bits 32..63, so that every  *)
(*    cast and mask of the source is computed on words that fit TLC's      *)
(*    integers.                                                            *)
(*  - An f32 wheel value x is held as the integer 120 * x ("ticks").  The  *)
(*    wheel values the model feeds in are multiples of 60, so every        *)
(*    quotient by 120.0 and every sum is a multiple of 0.5 of small        *)
(*    magnitude: exactly representable in f32, and the f32 operations of   *)
(*    the source are exact on them.                                        *)
(***************************************************************************)
EXTENDS Integers, Sequences, FiniteSets, TLC

(***************************************************************************)
(* Platform constants used by the source (values of the windows crate).    *)
(***************************************************************************)
WM_SIZE == 5
WM_INPUT == 255
WM_KEYDOWN == 256
WM_KEYUP == 257
WM_CHAR == 258
WM_SYSKEYDOWN == 260
WM_SYSKEYUP == 261
WM_MOUSEMOVE == 512
WM_LBUTTONDOWN == 513
WM_LBUTTONUP == 514
WM_LBUTTONDBLCLK == 515
WM_RBUTTONDOWN == 516
WM_RBUTTONUP == 517
WM_RBUTTONDBLCLK == 518
WM_MBUTTONDOWN == 519
WM_MBUTTONUP == 520
WM_MBUTTONDBLCLK == 521
WM_MOUSEWHEEL == 522
WM_XBUTTONDOWN == 523
WM_XBUTTONUP == 524
WM_XBUTTONDBLCLK == 525
WM_MOUSEHWHEEL == 526
WM_PAINT == 15

XBUTTON1 == 1
WHEEL_DELTA == 120

RI_MOUSE_LEFT_BUTTON_DOWN == 1
RI_MOUSE_LEFT_BUTTON_UP == 2
RI_MOUSE_RIGHT_BUTTON_DOWN == 4
RI_MOUSE_RIGHT_BUTTON_UP == 8
RI_MOUSE_MIDDLE_BUTTON_DOWN == 16
RI_MOUSE_MIDDLE_BUTTON_UP == 32
RI_MOUSE_BUTTON_4_DOWN == 64
RI_MOUSE_BUTTON_4_UP == 128
RI_MOUSE_BUTTON_5_DOWN == 256
RI_MOUSE_BUTTON_5_UP == 512
RI_MOUSE_WHEEL == 1024
RI_MOUSE_HWHEEL == 2048

RI_KEY_MAKE == 0
RI_KEY_BREAK == 1
RI_KEY_E0 == 2
RI_KEY_E1 == 4

RIM_INPUT == 0
RIM_TYPEMOUSE == 0
RIM_TYPEKEYBOARD == 1
\* u32::MAX, the all-ones failure value of GetRawInputData, held as -1.
U32_MAX == -1

VK_LBUTTON == 1
VK_RBUTTON == 2
VK_MBUTTON == 4
VK_XBUTTON1 == 5
VK_XBUTTON2 == 6
VK_SHIFT == 16
VK_CONTROL == 17
VK_MENU == 18
VK_LWIN == 91
VK_RWIN == 92
VK_LSHIFT == 160
VK_RSHIFT == 161
VK_LCONTROL == 162
VK_RCONTROL == 163
VK_LMENU == 164
VK_RMENU == 165

(***************************************************************************)
(* Machine arithmetic.                                                     *)
(***************************************************************************)
\* Whether the single-bit mask `flag` is set in `bits` (bits & flag != 0).
HasBit(bits, flag) == (bits \div flag) % 2 = 1

RECURSIVE BitOr(_, _)
\* Bitwise or of two naturals.
BitOr(a, b) ==
    IF a = 0 THEN b
    ELSE IF b = 0 THEN a
    ELSE (IF a % 2 = 1 \/ b % 2 = 1 THEN 1 ELSE 0) + 2 * BitOr(a \div 2, b \div 2)

\* A 16-bit word read as unsigned where the source casts it to i16.
as_u16(x) == x

\* `x as i16` of a 16-bit word x: two's complement reinterpretation.
as_i16(x) == IF x >= 32768 THEN x - 65536 ELSE x

\* Rust's integer division, which truncates toward zero.
TruncDiv(a, b) == IF a >= 0 THEN a \div b ELSE -((-a) \div b)

\* A WPARAM / LPARAM value from its three words.
Word(lo, hi) == [lo |-> lo, hi |-> hi, top |-> 0]

\* The comparison made after a cast to u16: only the low word is looked at.
LessThan256LowWord(w) == w.lo < 256

\* The comparison `wparam < 256` on the full usize.
LessThan256(w) == w.top = 0 /\ w.hi = 0 /\ w.lo < 256

\* hiword(wparam as u32): bits 16..31.
hiword(w) == w.hi

(***************************************************************************)
(* InputChange, in the order the enum declares its variants.               *)
(***************************************************************************)
MouseDown(i, v) == [kind |-> "MouseDown", index |-> i, value |-> v]
KeyDown(i, v) == [kind |-> "KeyDown", index |-> i, value |-> v]
MouseWheelScroll(d) == [kind |-> "MouseWheelScroll", delta |-> d]
MouseWheelHorizontalScroll(d) == [kind |-> "MouseWheelHorizontalScroll", delta |-> d]
AddInputCharacter(c) == [kind |-> "AddInputCharacter", character |-> c]
CtrlPressed(v) == [kind |-> "CtrlPressed", value |-> v]
ShiftPressed(v) == [kind |-> "ShiftPressed", value |-> v]
AltPressed(v) == [kind |-> "AltPressed", value |-> v]
SuperPressed(v) == [kind |-> "SuperPressed", value |-> v]


(***************************************************************************)
(* Raw input (WM_INPUT).                                                   *)
(***************************************************************************)
\* MapVirtualKeyA(scan_code, MAPVK_VSC_TO_VK_EX) of the US layout on the
\* scan codes of the modifier keys; 0 is its "no translation" result.
MapVirtualKeyA(scan_code) ==
    CASE scan_code = 42 -> VK_LSHIFT          \* 0x2A
      [] scan_code = 54 -> VK_RSHIFT          \* 0x36
      [] scan_code = 29 -> VK_LCONTROL        \* 0x1D
      [] scan_code = 57373 -> VK_RCONTROL     \* 0xE01D
      [] scan_code = 56 -> VK_LMENU           \* 0x38
      [] scan_code = 57400 -> VK_RMENU        \* 0xE038
      [] OTHER -> 0

\* A button block whose MouseDown always carries `true`.
ButtonPairAlwaysDown(button_flags, flag, vk, index, val) ==
    IF HasBit(button_flags, flag)
    THEN << KeyDown(vk, val), MouseDown(index, TRUE) >>
    ELSE << >>

\* The KeyDown/MouseDown pair one button flag of a raw mouse report sends.
ButtonPair(button_flags, flag, vk, index, val) ==
    IF HasBit(button_flags, flag)
    THEN << KeyDown(vk, val), MouseDown(index, val) >>
    ELSE << >>

\* The wheel quotient of the raw path: i16 / i16, then `as f32`; in ticks.
RawWheelDelta(usButtonData) == TruncDiv(as_i16(usButtonData), WHEEL_DELTA) * WHEEL_DELTA

\* handle_raw_mouse_input with each button's UP block ahead of its DOWN block.
handle_raw_mouse_input_up_first(raw_mouse) ==
    LET button_flags == raw_mouse.usButtonFlags IN
       ButtonPair(button_flags, RI_MOUSE_LEFT_BUTTON_UP, VK_LBUTTON, 0, FALSE)
    \o ButtonPair(button_flags, RI_MOUSE_LEFT_BUTTON_DOWN, VK_LBUTTON, 0, TRUE)
    \o ButtonPair(button_flags, RI_MOUSE_RIGHT_BUTTON_UP, VK_RBUTTON, 1, FALSE)
    \o ButtonPair(button_flags, RI_MOUSE_RIGHT_BUTTON_DOWN, VK_RBUTTON, 1, TRUE)
    \o ButtonPair(button_flags, RI_MOUSE_MIDDLE_BUTTON_UP, VK_MBUTTON, 2, FALSE)
    \o ButtonPair(button_flags, RI_MOUSE_MIDDLE_BUTTON_DOWN, VK_MBUTTON, 2, TRUE)
    \o ButtonPair(button_flags, RI_MOUSE_BUTTON_4_UP, VK_XBUTTON1, 3, FALSE)
    \o ButtonPair(button_flags, RI_MOUSE_BUTTON_4_DOWN, VK_XBUTTON1, 3, TRUE)
    \o ButtonPair(button_flags, RI_MOUSE_BUTTON_5_UP, VK_XBUTTON2, 4, FALSE)
    \o ButtonPair(button_flags, RI_MOUSE_BUTTON_5_DOWN, VK_XBUTTON2, 4, TRUE)
    \o (IF HasBit(button_flags, RI_MOUSE_WHEEL)
        THEN << MouseWheelScroll(RawWheelDelta(raw_mouse.usButtonData)) >>
        ELSE << >>)
    \o (IF HasBit(button_flags, RI_MOUSE_HWHEEL)
        THEN << MouseWheelHorizontalScroll(RawWheelDelta(raw_mouse.usButtonData)) >>
        ELSE << >>)

\* The changes handle_raw_mouse_input sends, in send order.
handle_raw_mouse_input(raw_mouse) ==
    LET button_flags == raw_mouse.usButtonFlags IN
       ButtonPair(button_flags, RI_MOUSE_LEFT_BUTTON_DOWN, VK_LBUTTON, 0, TRUE)
    \o ButtonPair(button_flags, RI_MOUSE_LEFT_BUTTON_UP, VK_LBUTTON, 0, FALSE)
    \o ButtonPair(button_flags, RI_MOUSE_RIGHT_BUTTON_DOWN, VK_RBUTTON, 1, TRUE)
    \o ButtonPair(button_flags, RI_MOUSE_RIGHT_BUTTON_UP, VK_RBUTTON, 1, FALSE)
    \o ButtonPair(button_flags, RI_MOUSE_MIDDLE_BUTTON_DOWN, VK_MBUTTON, 2, TRUE)
    \o ButtonPair(button_flags, RI_MOUSE_MIDDLE_BUTTON_UP, VK_MBUTTON, 2, FALSE)
    \o ButtonPair(button_flags, RI_MOUSE_BUTTON_4_DOWN, VK_XBUTTON1, 3, TRUE)
    \o ButtonPair(button_flags, RI_MOUSE_BUTTON_4_UP, VK_XBUTTON1, 3, FALSE)
    \o ButtonPair(button_flags, RI_MOUSE_BUTTON_5_DOWN, VK_XBUTTON2, 4, TRUE)
    \o ButtonPair(button_flags, RI_MOUSE_BUTTON_5_UP, VK_XBUTTON2, 4, FALSE)
    \o (IF HasBit(button_flags, RI_MOUSE_WHEEL)
        THEN << MouseWheelScroll(RawWheelDelta(raw_mouse.usButtonData)) >>
        ELSE << >>)
    \o (IF HasBit(button_flags, RI_MOUSE_HWHEEL)
        THEN << MouseWheelHorizontalScroll(RawWheelDelta(raw_mouse.usButtonData)) >>
        ELSE << >>)

\* The scan code of a raw keyboard report with its E0/E1 prefix applied.
ScanCode(raw_keyboard) ==
    LET c0 == raw_keyboard.MakeCode
        c1 == IF HasBit(raw_keyboard.Flags, RI_KEY_E0) THEN BitOr(c0, 57344) ELSE c0
    IN  IF HasBit(raw_keyboard.Flags, RI_KEY_E1) THEN BitOr(c1, 57600) ELSE c1

\* The virtual key a raw keyboard report resolves to.
RawVirtualKey(raw_keyboard) ==
    IF raw_keyboard.VKey \in {VK_SHIFT, VK_CONTROL, VK_MENU}
    THEN LET i == MapVirtualKeyA(ScanCode(raw_keyboard))
         IN  IF i = 0 THEN raw_keyboard.VKey ELSE i
    ELSE raw_keyboard.VKey

\* The changes handle_raw_keyboard_input sends, in send order.
handle_raw_keyboard_input(raw_keyboard) ==
    IF raw_keyboard.VKey = 0 THEN << >>
    ELSE LET flags == raw_keyboard.Flags
             is_key_down == (flags = RI_KEY_MAKE)
             is_key_up == HasBit(flags, RI_KEY_BREAK)
             virtual_key == RawVirtualKey(raw_keyboard)
         IN  IF virtual_key < 255
             THEN (IF is_key_down THEN << KeyDown(virtual_key, TRUE) >> ELSE << >>)
               \o (IF is_key_up THEN << KeyDown(virtual_key, FALSE) >> ELSE << >>)
             ELSE << >>

\* handle_raw_input without the RIM_INPUT test on wparam.
handle_raw_input_any_source(wparam, raw) ==
    IF raw.r = U32_MAX THEN << >>
    ELSE IF raw.dwType = RIM_TYPEMOUSE THEN handle_raw_mouse_input(raw.mouse)
    ELSE IF raw.dwType = RIM_TYPEKEYBOARD THEN handle_raw_keyboard_input(raw.keyboard)
    ELSE << >>

\* The changes handle_raw_input sends.  raw is what GetRawInputData yields
\* for HRAWINPUT(lparam): its return value r and the RAWINPUT it filled in.
handle_raw_input(wparam, raw) ==
    IF raw.r = U32_MAX THEN << >>
    ELSE IF (wparam.lo % 256) # RIM_INPUT THEN << >>
    ELSE IF raw.dwType = RIM_TYPEMOUSE THEN handle_raw_mouse_input(raw.mouse)
    ELSE IF raw.dwType = RIM_TYPEKEYBOARD THEN handle_raw_keyboard_input(raw.keyboard)
    ELSE << >>

(***************************************************************************)
(* Regular input.                                                          *)
(***************************************************************************)
\* The extended-key test with the mask 0x00800000 (bit 23).
ExtendedBitWrongMask(lparam) == HasBit(lparam.hi, 128)

\* lparam & 0x01000000 != 0: bit 24 is bit 8 of the high word.
ExtendedBit(lparam) == HasBit(lparam.hi, 256)

\* (lparam & 0x00ff0000) >> 16: the scan code, the low byte of the high word.
LParamScanCode(lparam) == lparam.hi % 256

\* map_vkey(wparam as u16, lparam as usize).
map_vkey(wparam, lparam) ==
    CASE wparam = VK_SHIFT ->
            LET i == MapVirtualKeyA(LParamScanCode(lparam))
            IN  IF i = 0 THEN wparam ELSE i
      [] wparam = VK_CONTROL -> IF ExtendedBit(lparam) THEN VK_RCONTROL ELSE VK_LCONTROL
      [] wparam = VK_MENU -> IF ExtendedBit(lparam) THEN VK_RMENU ELSE VK_LMENU
      [] OTHER -> wparam

\* The changes handle_input sends for a WM_(SYS)KEYDOWN / WM_(SYS)KEYUP.
handle_input(state, wparam, lparam) ==
    LET pressed == (state = WM_KEYDOWN) \/ (state = WM_SYSKEYDOWN)
        key_pressed == map_vkey(wparam.lo, lparam)
    IN  << KeyDown(key_pressed, pressed) >>
        \o (CASE key_pressed \in {VK_CONTROL, VK_LCONTROL, VK_RCONTROL} ->
                    << CtrlPressed(pressed) >>
              [] key_pressed \in {VK_SHIFT, VK_LSHIFT, VK_RSHIFT} ->
                    << ShiftPressed(pressed) >>
              [] key_pressed \in {VK_MENU, VK_LMENU, VK_RMENU} ->
                    << AltPressed(pressed) >>
              [] key_pressed \in {VK_LWIN, VK_RWIN} -> << SuperPressed(pressed) >>
              [] OTHER -> << >>)

\* The f32 quotient of the legacy wheel path, in ticks:
\* (hiword as i16 as f32) / (WHEEL_DELTA as f32).
LegacyWheelDelta(wparam) == as_i16(hiword(wparam))

\* An extra-button index that is 4 only for the high word 2 (XBUTTON2).
XButtonIndexOnlyTwo(wparam) == IF hiword(wparam) = 2 THEN 4 ELSE 3

\* The extra-button index of WM_XBUTTON* messages.
XButtonIndex(wparam) == IF hiword(wparam) = XBUTTON1 THEN 3 ELSE 4

\* An accumulator assigned the delta instead of increased by it.
wheel_overwrite(acc, delta) == delta

\* `io.mouse_wheel += delta` (f32 addition, exact on the model's values).
wheel_add(acc, delta) == acc + delta

(***************************************************************************)
(* update_io: one InputChange folded into the Io snapshot.  keys_down is   *)
(* held as the set of indices whose entry is true.                         *)
(***************************************************************************)
update_io(io, input_change) ==
    CASE input_change.kind = "MouseDown" ->
            [io EXCEPT !.mouse_down[input_change.index] = input_change.value]
      [] input_change.kind = "KeyDown" ->
            [io EXCEPT !.keys_down =
                IF input_change.value THEN @ \cup {input_change.index}
                ELSE @ \ {input_change.index}]
      [] input_change.kind = "MouseWheelScroll" ->
            [io EXCEPT !.mouse_wheel = wheel_add(@, input_change.delta)]
      [] input_change.kind = "MouseWheelHorizontalScroll" ->
            [io EXCEPT !.mouse_wheel_h = wheel_add(@, input_change.delta)]
      [] input_change.kind = "AddInputCharacter" ->
            [io EXCEPT !.chars = Append(@, input_change.character)]
      [] input_change.kind = "CtrlPressed" -> [io EXCEPT !.key_ctrl = input_change.value]
      [] input_change.kind = "ShiftPressed" -> [io EXCEPT !.key_shift = input_change.value]
      [] input_change.kind = "AltPressed" -> [io EXCEPT !.key_alt = input_change.value]
      [] input_change.kind = "SuperPressed" -> [io EXCEPT !.key_super = input_change.value]

(***************************************************************************)
(* Window procedure.                                                       *)
(***************************************************************************)
\* The changes the match of imgui_wnd_proc_impl sends for message m.
Decode(m) ==
    CASE m.umsg = WM_INPUT -> handle_raw_input(m.wparam, m.raw)
      [] m.umsg \in {WM_KEYDOWN, WM_SYSKEYDOWN, WM_KEYUP, WM_SYSKEYUP}
            /\ LessThan256(m.wparam) -> handle_input(m.umsg, m.wparam, m.lparam)
      [] m.umsg \in {WM_LBUTTONDOWN, WM_LBUTTONDBLCLK} -> << MouseDown(0, TRUE) >>
      [] m.umsg \in {WM_RBUTTONDOWN, WM_RBUTTONDBLCLK} -> << MouseDown(1, TRUE) >>
      [] m.umsg \in {WM_MBUTTONDOWN, WM_MBUTTONDBLCLK} -> << MouseDown(2, TRUE) >>
      [] m.umsg \in {WM_XBUTTONDOWN, WM_XBUTTONDBLCLK} ->
            << MouseDown(XButtonIndex(m.wparam), TRUE) >>
      [] m.umsg = WM_LBUTTONUP -> << MouseDown(0, FALSE) >>
      [] m.umsg = WM_RBUTTONUP -> << MouseDown(1, FALSE) >>
      [] m.umsg = WM_MBUTTONUP -> << MouseDown(2, FALSE) >>
      [] m.umsg = WM_XBUTTONUP -> << MouseDown(XButtonIndex(m.wparam), FALSE) >>
      [] m.umsg = WM_MOUSEWHEEL -> << MouseWheelScroll(LegacyWheelDelta(m.wparam)) >>
      [] m.umsg = WM_MOUSEHWHEEL ->
            << MouseWheelHorizontalScroll(LegacyWheelDelta(m.wparam)) >>
      [] m.umsg = WM_CHAR -> << AddInputCharacter(m.wparam.lo % 256) >>
      [] OTHER -> << >>

\* Policy with the flag ignored: every message but a resize is forwarded.
PolicyIgnoresFlag(m, should_block_messages) ==
    IF m.umsg = WM_SIZE THEN "resize" ELSE "forward"

\* Policy without the early return of the WM_SIZE arm.
PolicyResizeFallsThrough(m, should_block_messages) ==
    IF should_block_messages THEN "block" ELSE "forward"

\* Policy with the resize arm also taken by WM_PAINT.
PolicyResizeOnPaint(m, should_block_messages) ==
    IF m.umsg \in {WM_SIZE, WM_PAINT} THEN "resize"
    ELSE IF should_block_messages THEN "block"
    ELSE "forward"

\* Policy under which a message that was decoded into changes counts as
\* consumed and is never forwarded.
PolicyConsumesDecoded(m, should_block_messages) ==
    IF m.umsg = WM_SIZE THEN "resize"
    ELSE IF should_block_messages \/ Decode(m) # << >> THEN "block"
    ELSE "forward"

\* The tail of imgui_wnd_proc_impl once the match has sent its changes:
\* what the invocation does ("resize", "block" or "forward").
Policy(m, should_block_messages) ==
    IF m.umsg = WM_SIZE THEN "resize"
    ELSE IF should_block_messages THEN "block"
    ELSE "forward"

\* The send's Result unwrapped instead of discarded.
unwrap_send_result(ok) == IF ok THEN "continue" ELSE "panic"

\* `_ = wnd_proc_tx.send(..)`: the Result of the send is discarded, so the
\* handler goes on whether the send succeeded (ok) or not.
on_send_result(ok) == "continue"

\* A send that puts the value at the front of the queue.
send_lifo(queue, alive, item) == IF alive THEN << item >> \o queue ELSE queue

\* mpsc::Sender::send: the value is appended to the queue while the
\* receiver lives; once it is dropped the send fails and the value is lost.
send(queue, alive, item) == IF alive THEN Append(queue, item) ELSE queue

(***************************************************************************)
(* Bounds of the model.                                                    *)
(***************************************************************************)
NThreads == 2
MaxCalls == 3
ChanCalls == 2
DecodeCalls == 2

Threads == 1 .. NThreads

(***************************************************************************)
(* State.                                                                  *)
(*   chan      the queue of the mpsc channel; each entry is a change with  *)
(*             the thread that sent it (src, kept for the ordering claims) *)
(*   rx_alive  whether the Receiver still exists                           *)
(*   io        the imgui Io snapshot the consumer owns                     *)
(*   pc, frame each thread's position in imgui_wnd_proc_impl and the       *)
(*             invocation it is in                                         *)
(*   resizes   the number of RenderState::resize() calls made              *)
(*   log       the completed invocations, in order of return               *)
(*   enq, deq  the changes each thread got into the queue, and the entries *)
(*             the consumer took out, in order                             *)
(***************************************************************************)
VARIABLES chan, rx_alive, io, pc, frame, resizes, log, enq, deq

vars == << chan, rx_alive, io, pc, frame, resizes, log, enq, deq >>

decoder_vars == << pc, frame, resizes, log, enq >>

InitIo ==
    [mouse_down |-> [i \in 0 .. 4 |-> FALSE],
     keys_down |-> {},
     mouse_wheel |-> 0,
     mouse_wheel_h |-> 0,
     chars |-> << >>,
     key_ctrl |-> FALSE,
     key_shift |-> FALSE,
     key_alt |-> FALSE,
     key_super |-> FALSE]

\* What GetRawInputData yields when it fails.
NoRaw ==
    [r |-> U32_MAX, dwType |-> 0,
     mouse |-> [usButtonFlags |-> 0, usButtonData |-> 0],
     keyboard |-> [VKey |-> 0, MakeCode |-> 0, Flags |-> 0]]

Msg(hwnd, umsg, wparam, lparam) ==
    [hwnd |-> hwnd, umsg |-> umsg, wparam |-> wparam, lparam |-> lparam, raw |-> NoRaw]

NoFrame ==
    [msg |-> Msg(0, 0, Word(0, 0), Word(0, 0)), block |-> FALSE,
     pend |-> << >>, sent |-> << >>, failed |-> 0]

Init ==
    /\ chan = << >>
    /\ rx_alive = TRUE
    /\ io = InitIo
    /\ pc = [t \in Threads |-> "idle"]
    /\ frame = [t \in Threads |-> NoFrame]
    /\ resizes = 0
    /\ log = << >>
    /\ enq = [t \in Threads |-> << >>]
    /\ deq = << >>

\* The number of invocations begun so far.
NumCalls == Len(log) + Cardinality({t \in Threads : pc[t] # "idle"})

\* An entry that decodes only when the message is not going to be blocked.
CallSkipsDecodeWhenBlocked(t, m, b) ==
    /\ pc[t] = "idle"
    /\ pc' = [pc EXCEPT ![t] = "running"]
    /\ frame' = [frame EXCEPT ![t] =
                    [msg |-> m, block |-> b,
                     pend |-> IF b THEN << >> ELSE Decode(m),
                     sent |-> << >>, failed |-> 0]]
    /\ UNCHANGED << chan, rx_alive, io, resizes, log, enq, deq >>

\* Thread t enters imgui_wnd_proc_impl with message m and flag b.
Call(t, m, b) ==
    /\ pc[t] = "idle"
    /\ pc' = [pc EXCEPT ![t] = "running"]
    /\ frame' = [frame EXCEPT ![t] =
                    [msg |-> m, block |-> b, pend |-> Decode(m), sent |-> << >>,
                     failed |-> 0]]
    /\ UNCHANGED << chan, rx_alive, io, resizes, log, enq, deq >>

\* The decoder writing the change into the snapshot itself, as it would
\* with a shared `&mut Io` instead of the channel.
SendOneDirect(t) ==
    /\ pc[t] = "running"
    /\ frame[t].pend # << >>
    /\ LET c == Head(frame[t].pend) IN
        /\ io' = update_io(io, c)
        /\ frame' = [frame EXCEPT ![t].pend = Tail(@), ![t].sent = Append(@, c)]
    /\ UNCHANGED << chan, rx_alive, pc, resizes, log, enq, deq >>

\* Thread t performs the next wnd_proc_tx.send of its invocation.
SendOne(t) ==
    /\ pc[t] = "running"
    /\ frame[t].pend # << >>
    /\ LET c == Head(frame[t].pend) IN
        /\ chan' = send(chan, rx_alive, [src |-> t, chg |-> c])
        /\ enq' = [enq EXCEPT ![t] = IF rx_alive THEN Append(@, c) ELSE @]
        /\ frame' = [frame EXCEPT ![t].pend = Tail(@),
                                  ![t].sent = Append(@, c),
                                  ![t].failed = IF rx_alive THEN @ ELSE @ + 1]
        /\ pc' = [pc EXCEPT ![t] =
                    IF on_send_result(rx_alive) = "continue" THEN "running" ELSE "panicked"]
    /\ UNCHANGED << rx_alive, io, resizes, log, deq >>

\* Thread t runs the tail of its invocation and returns; r is what the
\* original window procedure returns if it is called.
Return(t, r) ==
    /\ pc[t] = "running"
    /\ frame[t].pend = << >>
    /\ LET f == frame[t]
           what == Policy(f.msg, f.block)
       IN  /\ resizes' = IF what = "resize" THEN resizes + 1 ELSE resizes
           /\ log' = Append(log,
                 [t |-> t, msg |-> f.msg, block |-> f.block, sent |-> f.sent,
                  failed |-> f.failed, alive |-> rx_alive,
                  resized |-> IF what = "resize" THEN 1 ELSE 0,
                  calls |-> IF what = "forward"
                            THEN << [hwnd |-> f.msg.hwnd, umsg |-> f.msg.umsg,
                                     wparam |-> f.msg.wparam, lparam |-> f.msg.lparam,
                                     ret |-> r] >>
                            ELSE << >>,
                  result |-> IF what = "forward" THEN r ELSE 1])
    /\ pc' = [pc EXCEPT ![t] = "idle"]
    /\ frame' = [frame EXCEPT ![t] = NoFrame]
    /\ UNCHANGED << chan, rx_alive, io, enq, deq >>

\* The consumer takes one change out of the channel and applies it.
ReducerStep ==
    /\ rx_alive
    /\ chan # << >>
    /\ io' = update_io(io, Head(chan).chg)
    /\ deq' = Append(deq, Head(chan))
    /\ chan' = Tail(chan)
    /\ UNCHANGED << rx_alive, pc, frame, resizes, log, enq >>

\* The consumer is torn down: the Receiver is dropped with what it holds.
DropReceiver ==
    /\ rx_alive
    /\ rx_alive' = FALSE
    /\ chan' = << >>
    /\ UNCHANGED << io, pc, frame, resizes, log, enq, deq >>

\* One step of the system with threads T, messages M, flags B and
\* original-procedure results R, of at most N invocations, while the
\* consumer lives.
LiveStep(T, M, B, R, N) ==
    \/ \E t \in T, m \in M, b \in B : NumCalls < N /\ Call(t, m, b)
    \/ \E t \in T : SendOne(t)
    \/ \E t \in T, r \in R : Return(t, r)
    \/ ReducerStep

\* One step of the system whose consumer may be torn down at any moment.
Step(T, M, B, R, N) ==
    \/ LiveStep(T, M, B, R, N)
    \/ DropReceiver

(***************************************************************************)
(* The messages the specifications feed in.                                *)
(***************************************************************************)
\* A WM_INPUT message whose payload is a mouse report.
RawMouseMsg(flags, data) ==
    [Msg(1, WM_INPUT, Word(RIM_INPUT, 0), Word(4660, 0)) EXCEPT
        !.raw = [r |-> 48, dwType |-> RIM_TYPEMOUSE,
                 mouse |-> [usButtonFlags |-> flags, usButtonData |-> data],
                 keyboard |-> [VKey |-> 0, MakeCode |-> 0, Flags |-> 0]]]

\* A signed 16-bit value as the 16-bit word that carries it.
Enc16(v) == IF v < 0 THEN v + 65536 ELSE v

\* Message types the shim does not recognize, a resize and two decoded ones.
PolicyMsgs ==
    { Msg(1, WM_MOUSEMOVE, Word(0, 0), Word(10, 20)),
      Msg(2, WM_PAINT, Word(8, 0), Word(0, 0)),
      Msg(1, WM_SIZE, Word(0, 0), Word(640, 480)),
      Msg(1, WM_KEYDOWN, Word(VK_CONTROL, 0), Word(1, 29)) }

LResults == {0, 7}

\* Messages that send two changes each, for the interleaving of producers.
ChanMsgs ==
    { Msg(1, WM_KEYDOWN, Word(VK_CONTROL, 0), Word(1, 29)),
      Msg(1, WM_KEYUP, Word(VK_CONTROL, 0), Word(1, 49181)) }

NextChan == Step(Threads, ChanMsgs, {TRUE}, {0}, ChanCalls)

SpecChan == Init /\ [][NextChan]_vars

\* The mouse button reports: for each path ("raw": a WM_INPUT mouse report
\* with one transition flag, "legacy": a button message), button index and
\* direction, the message that reports it.
RawButtonFlag(i, pressed) ==
    CASE i = 0 -> IF pressed THEN RI_MOUSE_LEFT_BUTTON_DOWN ELSE RI_MOUSE_LEFT_BUTTON_UP
      [] i = 1 -> IF pressed THEN RI_MOUSE_RIGHT_BUTTON_DOWN ELSE RI_MOUSE_RIGHT_BUTTON_UP
      [] i = 2 -> IF pressed THEN RI_MOUSE_MIDDLE_BUTTON_DOWN ELSE RI_MOUSE_MIDDLE_BUTTON_UP
      [] i = 3 -> IF pressed THEN RI_MOUSE_BUTTON_4_DOWN ELSE RI_MOUSE_BUTTON_4_UP
      [] i = 4 -> IF pressed THEN RI_MOUSE_BUTTON_5_DOWN ELSE RI_MOUSE_BUTTON_5_UP

LegacyButtonType(i, pressed) ==
    CASE i = 0 -> IF pressed THEN WM_LBUTTONDOWN ELSE WM_LBUTTONUP
      [] i = 1 -> IF pressed THEN WM_RBUTTONDOWN ELSE WM_RBUTTONUP
      [] i = 2 -> IF pressed THEN WM_MBUTTONDOWN ELSE WM_MBUTTONUP
      [] i \in {3, 4} -> IF pressed THEN WM_XBUTTONDOWN ELSE WM_XBUTTONUP

ButtonReport(path, i, pressed) ==
    IF path = "raw" THEN RawMouseMsg(RawButtonFlag(i, pressed), 0)
    ELSE Msg(1, LegacyButtonType(i, pressed),
             Word(0, IF i = 3 THEN 1 ELSE IF i = 4 THEN 2 ELSE 0), Word(10, 20))

Paths == {"raw", "legacy"}

ButtonMsgs ==
    { ButtonReport(path, i, v) : path \in Paths, i \in 0 .. 4, v \in BOOLEAN }

NextButtons == LiveStep({1}, ButtonMsgs, {FALSE}, {0}, DecodeCalls)

SpecButtons == Init /\ [][NextButtons]_vars

\* The wheel reports: for each path, axis and signed 16-bit wheel value the
\* message that carries it (raw: usButtonData with the wheel flag; legacy:
\* the high word of wParam).
WheelVals == {-32760, -120, -60, 60, 120, 240}

Axes == {"vertical", "horizontal"}

WheelReport(path, axis, v) ==
    IF path = "raw"
    THEN RawMouseMsg(IF axis = "vertical" THEN RI_MOUSE_WHEEL ELSE RI_MOUSE_HWHEEL, Enc16(v))
    ELSE Msg(1, IF axis = "vertical" THEN WM_MOUSEWHEEL ELSE WM_MOUSEHWHEEL,
             Word(8, Enc16(v)), Word(10, 20))

WheelMsgs == { WheelReport(path, axis, v) : path \in Paths, axis \in Axes, v \in WheelVals }

NextWheel == LiveStep({1}, WheelMsgs, {FALSE}, {0}, DecodeCalls)

SpecWheel == Init /\ [][NextWheel]_vars

\* The key messages: type, virtual key and extended-key bit (bit 24 of
\* lParam).  The high word of lParam holds the scan code in its low byte,
\* the extended bit in bit 8 and, for a key-up, the transition bits 14, 15.
KeyTypes == {WM_KEYDOWN, WM_SYSKEYDOWN, WM_KEYUP, WM_SYSKEYUP}

KeyScanCode(vk) ==
    CASE vk = VK_CONTROL -> 29
      [] vk = VK_MENU -> 56
      [] OTHER -> 30

KeyMsg(type, vk, ext) ==
    Msg(1, type, Word(vk, 0),
        Word(1, KeyScanCode(vk) + (IF ext THEN 256 ELSE 0)
                + (IF type \in {WM_KEYUP, WM_SYSKEYUP} THEN 49152 ELSE 0)))

KeyMsgs ==
    { KeyMsg(type, vk, ext) : type \in KeyTypes, vk \in {VK_CONTROL, VK_MENU}, ext \in BOOLEAN }
    \cup { KeyMsg(WM_KEYDOWN, 65, FALSE) }

NextKeys == LiveStep({1}, KeyMsgs, {FALSE}, {0}, DecodeCalls)

SpecKeys == Init /\ [][NextKeys]_vars

\* A WM_INPUT whose wParam is `source` and for which GetRawInputData yields
\* raw.
RawInputMsg(source, raw) ==
    [Msg(1, WM_INPUT, Word(source, 0), Word(4660, 0)) EXCEPT !.raw = raw]

\* The RAWINPUT of a keyboard report.
RawKeyboard(vkey, make_code, flags) ==
    [r |-> 40, dwType |-> RIM_TYPEKEYBOARD,
     mouse |-> [usButtonFlags |-> 0, usButtonData |-> 0],
     keyboard |-> [VKey |-> vkey, MakeCode |-> make_code, Flags |-> flags]]

RawKeyboardMsg(vkey, make_code, flags) ==
    RawInputMsg(RIM_INPUT, RawKeyboard(vkey, make_code, flags))

\* Raw-input notifications that are to be dropped: a failed fetch (the
\* buffer holding a left-button press), a report received in the background
\* (wParam 1), a report of a device that is neither mouse nor keyboard
\* (dwType 2), and keyboard reports with the key code zero.
DroppedRawMsgs ==
    { RawInputMsg(RIM_INPUT,
                  [RawMouseMsg(RI_MOUSE_LEFT_BUTTON_DOWN, 0).raw EXCEPT !.r = U32_MAX]),
      RawInputMsg(1, RawKeyboard(65, 30, RI_KEY_MAKE)),
      RawInputMsg(RIM_INPUT, [RawKeyboard(65, 30, RI_KEY_MAKE) EXCEPT !.dwType = 2]),
      RawKeyboardMsg(0, 30, RI_KEY_MAKE),
      RawKeyboardMsg(0, 29, RI_KEY_BREAK + RI_KEY_E0) }

\* Keyboard reports of the A key and of the Control keys, with every
\* combination of the break and E0 bits, an E1 make, and a report with the
\* key code 255.
RawKeyMsgs ==
    { RawKeyboardMsg(vk, IF vk = 65 THEN 30 ELSE 29, brk + e0) :
        vk \in {65, VK_CONTROL}, brk \in {RI_KEY_MAKE, RI_KEY_BREAK}, e0 \in {0, RI_KEY_E0} }
    \cup { RawKeyboardMsg(65, 30, RI_KEY_E1), RawKeyboardMsg(255, 30, RI_KEY_MAKE) }

RawMsgs == DroppedRawMsgs \cup RawKeyMsgs \cup { RawMouseMsg(RI_MOUSE_RIGHT_BUTTON_DOWN, 0) }

NextRaw == LiveStep({1}, RawMsgs, {FALSE}, {0}, DecodeCalls)

SpecRaw == Init /\ [][NextRaw]_vars

\* The messages with the largest indices each path lets through: key
\* messages and raw keyboard reports with the key codes 254 and 255, the
\* fifth mouse button on both paths.
IndexMsgs ==
    { KeyMsg(type, vk, FALSE) : type \in {WM_KEYDOWN, WM_KEYUP}, vk \in {254, 255} }
    \cup { RawKeyboardMsg(vk, 30, RI_KEY_MAKE) : vk \in {254, 255} }
    \cup { RawMouseMsg(RI_MOUSE_BUTTON_5_DOWN, 0),
           Msg(1, WM_XBUTTONDOWN, Word(0, 2), Word(10, 20)) }

NextIndex == LiveStep({1}, IndexMsgs, {FALSE}, {0}, DecodeCalls)

SpecIndex == Init /\ [][NextIndex]_vars

\* usButtonFlags of raw mouse reports: no flag, the press and the release of
\* one button together (for each button), presses of three buttons, a
\* release with another button's press, and all ten flags.
MouseFlagSets ==
    { 0,
      RI_MOUSE_LEFT_BUTTON_DOWN + RI_MOUSE_LEFT_BUTTON_UP,
      RI_MOUSE_RIGHT_BUTTON_DOWN + RI_MOUSE_RIGHT_BUTTON_UP,
      RI_MOUSE_MIDDLE_BUTTON_DOWN + RI_MOUSE_MIDDLE_BUTTON_UP,
      RI_MOUSE_BUTTON_4_DOWN + RI_MOUSE_BUTTON_4_UP,
      RI_MOUSE_BUTTON_5_DOWN + RI_MOUSE_BUTTON_5_UP,
      RI_MOUSE_LEFT_BUTTON_DOWN + RI_MOUSE_RIGHT_BUTTON_UP + RI_MOUSE_BUTTON_4_DOWN,
      RI_MOUSE_LEFT_BUTTON_UP + RI_MOUSE_MIDDLE_BUTTON_DOWN,
      RI_MOUSE_WHEEL - 1 }

MouseMsgs == { RawMouseMsg(f, 0) : f \in MouseFlagSets }

NextMouse == LiveStep({1}, MouseMsgs, {FALSE}, {0}, DecodeCalls)

SpecMouse == Init /\ [][NextMouse]_vars

\* The legacy mouse button messages: down, double click and up of the left,
\* right and middle buttons, and of the extra buttons with the high word of
\* wParam 0, 1, 2 and 3 (the low word holding key-state flags).
LegacyXTypes == {WM_XBUTTONDOWN, WM_XBUTTONDBLCLK, WM_XBUTTONUP}

LegacyButtonMsgs ==
    { Msg(1, type, Word(1, 0), Word(10, 20)) :
        type \in {WM_LBUTTONDOWN, WM_LBUTTONDBLCLK, WM_LBUTTONUP,
                  WM_RBUTTONDOWN, WM_RBUTTONDBLCLK, WM_RBUTTONUP,
                  WM_MBUTTONDOWN, WM_MBUTTONDBLCLK, WM_MBUTTONUP} }
    \cup { Msg(1, type, Word(32, hi), Word(10, 20)) : type \in LegacyXTypes, hi \in 0 .. 3 }

NextLegacyButtons == LiveStep({1}, LegacyButtonMsgs, {FALSE}, {0}, DecodeCalls)

SpecLegacyButtons == Init /\ [][NextLegacyButtons]_vars

\* One message of each kind the shim tells apart: unrecognized, resize,
\* raw input, key, mouse button, wheel, character, and key messages whose
\* wParam is 273, 65553 and 2^32 + 17.
OutOfRangeKeyMsgs ==
    { Msg(1, WM_KEYDOWN, Word(273, 0), Word(1, 29)),
      Msg(1, WM_SYSKEYUP, Word(VK_CONTROL, 1), Word(1, 49181 + 256)),
      Msg(2, WM_KEYUP, [lo |-> VK_CONTROL, hi |-> 0, top |-> 1], Word(0, 0)) }

ShimMsgs ==
    { Msg(1, WM_MOUSEMOVE, Word(0, 0), Word(10, 20)),
      Msg(1, WM_SIZE, Word(0, 0), Word(640, 480)),
      RawMouseMsg(RI_MOUSE_LEFT_BUTTON_DOWN, 0),
      KeyMsg(WM_KEYDOWN, VK_CONTROL, FALSE),
      Msg(2, WM_LBUTTONDOWN, Word(1, 0), Word(10, 20)),
      Msg(1, WM_MOUSEWHEEL, Word(0, WHEEL_DELTA), Word(10, 20)),
      Msg(1, WM_CHAR, Word(97, 0), Word(1, 30)) }
    \cup OutOfRangeKeyMsgs

NextShim == LiveStep({1}, ShimMsgs, BOOLEAN, {7}, DecodeCalls)

SpecShim == Init /\ [][NextShim]_vars

NextPolicy == Step({1}, PolicyMsgs, BOOLEAN, LResults, MaxCalls)

SpecPolicy == Init /\ [][NextPolicy]_vars

(***************************************************************************)
(* Vocabulary of the claims about a completed invocation e (a log entry).  *)
(***************************************************************************)
RecognizedTypes ==
    { WM_INPUT, WM_KEYDOWN, WM_SYSKEYDOWN, WM_KEYUP, WM_SYSKEYUP,
      WM_LBUTTONDOWN, WM_LBUTTONDBLCLK, WM_RBUTTONDOWN, WM_RBUTTONDBLCLK,
      WM_MBUTTONDOWN, WM_MBUTTONDBLCLK, WM_XBUTTONDOWN, WM_XBUTTONDBLCLK,
      WM_LBUTTONUP, WM_RBUTTONUP, WM_MBUTTONUP, WM_XBUTTONUP,
      WM_MOUSEWHEEL, WM_MOUSEHWHEEL, WM_CHAR, WM_SIZE }

Unrecognized(e) == e.msg.umsg \notin RecognizedTypes

\* The handled code came back and the original procedure was not called.
Swallowed(e) == e.result = 1 /\ e.calls = << >>

\* The original procedure was called once with the parameters received,
\* and what it returned came back.
Forwarded(e) ==
    /\ Len(e.calls) = 1
    /\ e.calls[1].hwnd = e.msg.hwnd
    /\ e.calls[1].umsg = e.msg.umsg
    /\ e.calls[1].wparam = e.msg.wparam
    /\ e.calls[1].lparam = e.msg.lparam
    /\ e.result = e.calls[1].ret

LogIdx == 1 .. Len(log)

(***************************************************************************)
(* C1: an invocation with an unrecognized message type is swallowed        *)
(* (result 1, original procedure not called) when should_block_messages is *)
(* true, and otherwise forwarded once with the same hwnd, message, wParam  *)
(* and lParam, returning the original procedure's result; each invocation  *)
(* follows its own flag value.                                             *)
(***************************************************************************)
C1_UnrecognizedFollowsFlag ==
    \A k \in LogIdx :
        Unrecognized(log[k]) =>
            IF log[k].block THEN Swallowed(log[k]) ELSE Forwarded(log[k])

\* Two consecutive unrecognized invocations, the flag true then false: the
\* first swallowed, the second forwarded with the result 7.
C1_Witness ==
    \E k \in LogIdx :
        /\ k + 1 \in LogIdx
        /\ Unrecognized(log[k]) /\ Unrecognized(log[k + 1])
        /\ log[k].block /\ ~log[k + 1].block
        /\ Swallowed(log[k])
        /\ Forwarded(log[k + 1]) /\ log[k + 1].result = 7

(***************************************************************************)
(* C2: a WM_SIZE invocation returns 1 and never calls the original         *)
(* procedure, whatever should_block_messages is.                           *)
(***************************************************************************)
C2_ResizeAlwaysHandled ==
    \A k \in LogIdx : log[k].msg.umsg = WM_SIZE => Swallowed(log[k])

\* WM_SIZE was handled once with the flag true and once with it false.
C2_Witness ==
    \E j, k \in LogIdx :
        /\ log[j].msg.umsg = WM_SIZE /\ log[j].block
        /\ log[k].msg.umsg = WM_SIZE /\ ~log[k].block

(***************************************************************************)
(* C3: each WM_SIZE invocation calls the resize callback exactly once, no  *)
(* other message type calls it, and a WM_SIZE invocation sends no          *)
(* InputChange.                                                            *)
(***************************************************************************)
C3_ResizeOncePerResizeMessage ==
    /\ \A k \in LogIdx :
          /\ log[k].resized = (IF log[k].msg.umsg = WM_SIZE THEN 1 ELSE 0)
          /\ log[k].msg.umsg = WM_SIZE => log[k].sent = << >>
    /\ resizes = Cardinality({k \in LogIdx : log[k].msg.umsg = WM_SIZE})
    /\ \A t \in Threads :
          pc[t] = "running" /\ frame[t].msg.umsg = WM_SIZE =>
              frame[t].pend = << >> /\ frame[t].sent = << >>

\* Two resizes and a message that sent changes, among three invocations.
C3_Witness ==
    /\ Len(log) = 3
    /\ resizes = 2
    /\ \E k \in LogIdx : log[k].sent # << >>

(***************************************************************************)
(* C6: with the Receiver dropped (every send fails) an invocation still    *)
(* completes without a fault, with the result and the original-procedure   *)
(* call its message and flag determine, and from the teardown on the       *)
(* snapshot stays as it was.                                               *)
(***************************************************************************)
C6_SendFailureIsSilent ==
    /\ [](\A t \in Threads : pc[t] # "panicked")
    /\ [](\A k \in LogIdx :
            ~log[k].alive =>
                /\ log[k].sent = Decode(log[k].msg)
                /\ IF log[k].msg.umsg = WM_SIZE THEN Swallowed(log[k])
                   ELSE IF log[k].block THEN Swallowed(log[k])
                   ELSE Forwarded(log[k]))
    /\ [][~rx_alive' => io' = io]_vars

\* After changes were applied the Receiver was dropped, and an invocation
\* whose two sends both failed was forwarded and returned 7.
C6_Witness ==
    /\ ~rx_alive
    /\ io # InitIo
    /\ \E k \in LogIdx :
          /\ ~log[k].alive
          /\ log[k].failed = 2
          /\ Forwarded(log[k]) /\ log[k].result = 7

(***************************************************************************)
(* Vocabulary of the claims about the channel.                             *)
(***************************************************************************)
RECURSIVE Changes(_)
\* The changes of a sequence of queue entries.
Changes(q) == IF q = << >> THEN << >> ELSE << Head(q).chg >> \o Changes(Tail(q))

\* The changes of the entries of q that thread t sent, in q's order.
BySrc(q, t) == Changes(SelectSeq(q, LAMBDA x : x.src = t))

IsPrefix(a, b) == Len(a) <= Len(b) /\ a = SubSeq(b, 1, Len(a))

RECURSIVE FoldIo(_, _)
\* update_io folded over the changes cs, first to last.
FoldIo(s, cs) == IF cs = << >> THEN s ELSE FoldIo(update_io(s, Head(cs)), Tail(cs))

OnlyProducer(p) == \A t \in Threads \ {p} : enq[t] = << >>

(***************************************************************************)
(* C4: the snapshot changes only in a reducer step, which applies          *)
(* update_io to the change at the head of the queue; a step of an          *)
(* invocation of imgui_wnd_proc_impl leaves the snapshot and the           *)
(* consumer's record alone and a consumer step leaves every invocation     *)
(* alone, so that the queue is all the two sides share.                    *)
(***************************************************************************)
C4_SnapshotOwnedByReducer ==
    [][ /\ io' # io =>
            /\ rx_alive /\ chan # << >>
            /\ io' = update_io(io, Head(chan).chg)
            /\ chan' = Tail(chan)
            /\ UNCHANGED decoder_vars
        /\ decoder_vars' # decoder_vars => io' = io /\ deq' = deq
      ]_vars

\* Both threads are inside an invocation, each has sent a change, and the
\* reducer has already applied one of them.
C4_Witness ==
    /\ \A t \in {1, 2} : pc[t] = "running" /\ frame[t].sent # << >>
    /\ deq # << >>
    /\ io # InitIo

(***************************************************************************)
(* C5: the consumer takes out, per producer, exactly the changes that      *)
(* producer enqueued, in its order, none merged, dropped or duplicated;    *)
(* with one producer the dequeued sequence is the enqueued one, and the    *)
(* snapshot after a drain is the in-order fold of update_io over the       *)
(* enqueued changes.                                                       *)
(***************************************************************************)
C5_FifoPerProducer ==
    /\ \A t \in Threads : IsPrefix(BySrc(deq, t), enq[t])
    /\ rx_alive => \A t \in Threads : BySrc(deq, t) \o BySrc(chan, t) = enq[t]
    /\ io = FoldIo(InitIo, Changes(deq))
    /\ \A p \in Threads :
          OnlyProducer(p) /\ rx_alive =>
              /\ Changes(deq) \o Changes(chan) = enq[p]
              /\ chan = << >> => io = FoldIo(InitIo, enq[p])

\* Two producers whose sends interleaved, all four changes drained.
C5_Witness ==
    /\ rx_alive /\ chan = << >>
    /\ Len(deq) = 4
    /\ deq[1].src # deq[2].src /\ deq[2].src # deq[3].src /\ deq[3].src # deq[4].src
    /\ enq[1] # << >> /\ enq[2] # << >>
    /\ enq[1] # enq[2]

(***************************************************************************)
(* Vocabulary of the claims about decoded reports.                         *)
(***************************************************************************)
\* Everything sent has been applied: no invocation in progress, the queue
\* empty, the consumer alive.
Drained == rx_alive /\ chan = << >> /\ \A t \in Threads : pc[t] = "idle"

\* Message m is a button report of button i.
ReportsButton(m, i) == \E path \in Paths, v \in BOOLEAN : m = ButtonReport(path, i, v)

RECURSIVE ButtonsAfter(_)
\* What the reports log[1..n] say about each button: the direction of the
\* last report of that button, released if there is none.
ButtonsAfter(n) ==
    IF n = 0 THEN [j \in 0 .. 4 |-> FALSE]
    ELSE [j \in 0 .. 4 |->
            IF ReportsButton(log[n].msg, j)
            THEN \E path \in Paths : log[n].msg = ButtonReport(path, j, TRUE)
            ELSE ButtonsAfter(n - 1)[j]]

(***************************************************************************)
(* C7: for each button index 0..4 and both paths, once a down report is    *)
(* decoded and drained the snapshot's button state at that index is true,  *)
(* once a following up report is decoded and drained it is false, and the  *)
(* other four button states are what they were before the reports.         *)
(***************************************************************************)
C7_ButtonDownThenUp ==
    Drained =>
        LET n == Len(log) IN
        /\ \A i \in 0 .. 4, path \in Paths :
              /\ n >= 1 /\ log[n].msg = ButtonReport(path, i, TRUE) =>
                    /\ io.mouse_down[i] = TRUE
                    /\ \A j \in (0 .. 4) \ {i} :
                          io.mouse_down[j] = ButtonsAfter(n - 1)[j]
              /\ n >= 2 /\ log[n].msg = ButtonReport(path, i, FALSE)
                        /\ ReportsButton(log[n - 1].msg, i)
                        /\ ButtonsAfter(n - 1)[i] =>
                    /\ io.mouse_down[i] = FALSE
                    /\ \A j \in (0 .. 4) \ {i} :
                          io.mouse_down[j] = ButtonsAfter(n - 2)[j]
        /\ io.mouse_down = ButtonsAfter(n)

\* A raw down report of extra button 2 (index 4) followed by its legacy up
\* report, both drained.
C7_Witness ==
    /\ Drained
    /\ Len(log) = 2
    /\ log[1].msg = ButtonReport("raw", 4, TRUE)
    /\ log[2].msg = ButtonReport("legacy", 4, FALSE)
    /\ Len(deq) = 3
    /\ io.mouse_down = [j \in 0 .. 4 |-> FALSE]

(***************************************************************************)
(* C8: wheel deltas are folded additively: each axis's accumulator is the  *)
(* sum of the deltas applied to that axis (1.0 and -0.5 from 0 give 0.5),  *)
(* a delta on one axis leaves the other accumulator unchanged, and no      *)
(* accumulator is ever reset or overwritten.                               *)
(***************************************************************************)
RECURSIVE SumDeltas(_, _)
\* The sum of the deltas of the changes of kind k in the queue entries q.
SumDeltas(q, k) ==
    IF q = << >> THEN 0
    ELSE (IF Head(q).chg.kind = k THEN Head(q).chg.delta ELSE 0) + SumDeltas(Tail(q), k)

C8_WheelAccumulates ==
    /\ io.mouse_wheel = SumDeltas(deq, "MouseWheelScroll")
    /\ io.mouse_wheel_h = SumDeltas(deq, "MouseWheelHorizontalScroll")

\* The deltas 1.0 and -0.5 (120 and -60 ticks) were applied to the vertical
\* axis from 0: the accumulator is 0.5 and the horizontal one still 0.
C8_Witness ==
    /\ Drained
    /\ Changes(deq) = << MouseWheelScroll(WHEEL_DELTA), MouseWheelScroll(-60) >>
    /\ io.mouse_wheel = 60
    /\ io.mouse_wheel_h = 0

(***************************************************************************)
(* C9: a wheel report whose signed 16-bit value is k * 120 sends exactly   *)
(* one WheelDelta, on the report's axis, with delta exactly k, on the raw  *)
(* path and on the legacy path; the high word of wParam is read as signed. *)
(***************************************************************************)
WheelChange(axis, ticks) ==
    IF axis = "vertical" THEN MouseWheelScroll(ticks) ELSE MouseWheelHorizontalScroll(ticks)

C9_WheelNotchesExact ==
    \A n \in LogIdx, path \in Paths, axis \in Axes, v \in WheelVals :
        log[n].msg = WheelReport(path, axis, v) /\ v % WHEEL_DELTA = 0 =>
            log[n].sent = << WheelChange(axis, (v \div WHEEL_DELTA) * WHEEL_DELTA) >>

\* 240 on the raw path gave 2.0 and -120 on the legacy path gave -1.0.
C9_Witness ==
    /\ Len(log) = 2
    /\ log[1].msg = WheelReport("raw", "horizontal", 240)
    /\ log[1].sent = << MouseWheelHorizontalScroll(2 * WHEEL_DELTA) >>
    /\ log[2].msg = WheelReport("legacy", "vertical", -120)
    /\ log[2].sent = << MouseWheelScroll(-1 * WHEEL_DELTA) >>

(***************************************************************************)
(* C10: a key-down or key-up message (system-key variants included) whose  *)
(* virtual key is Control (Alt) sends a KeyState with the right-Control    *)
(* (right-Alt) key if bit 24 of lParam is set and the left one otherwise,  *)
(* followed by a ModifierState for ctrl (alt) with the same pressed value. *)
(***************************************************************************)
C10_LeftRightModifiers ==
    \A n \in LogIdx, type \in KeyTypes, ext \in BOOLEAN :
        LET pressed == type \in {WM_KEYDOWN, WM_SYSKEYDOWN} IN
        /\ log[n].msg = KeyMsg(type, VK_CONTROL, ext) =>
              log[n].sent = << KeyDown(IF ext THEN VK_RCONTROL ELSE VK_LCONTROL, pressed),
                               CtrlPressed(pressed) >>
        /\ log[n].msg = KeyMsg(type, VK_MENU, ext) =>
              log[n].sent = << KeyDown(IF ext THEN VK_RMENU ELSE VK_LMENU, pressed),
                               AltPressed(pressed) >>

\* A right-Control key-down then a left-Alt system-key-up, both drained.
C10_Witness ==
    /\ Drained
    /\ Len(log) = 2
    /\ log[1].msg = KeyMsg(WM_KEYDOWN, VK_CONTROL, TRUE)
    /\ log[1].sent = << KeyDown(VK_RCONTROL, TRUE), CtrlPressed(TRUE) >>
    /\ log[2].msg = KeyMsg(WM_SYSKEYUP, VK_MENU, FALSE)
    /\ log[2].sent = << KeyDown(VK_LMENU, FALSE), AltPressed(FALSE) >>
    /\ io.key_ctrl /\ ~io.key_alt /\ io.keys_down = {VK_RCONTROL}

(***************************************************************************)
(* C11: a key-down / key-up message (system-key variants included) whose   *)
(* wParam is 256 or more sends no InputChange, whatever its lParam, and is *)
(* then swallowed or forwarded by the flag like an unrecognized message.   *)
(***************************************************************************)
\* The value of the word record w is at least 256.
AtLeast256(w) == w.top > 0 \/ w.hi > 0 \/ w.lo >= 256

C11_OutOfRangeKeyIgnored ==
    \A n \in LogIdx :
        log[n].msg.umsg \in KeyTypes /\ AtLeast256(log[n].msg.wparam) =>
            /\ log[n].sent = << >>
            /\ IF log[n].block THEN Swallowed(log[n]) ELSE Forwarded(log[n])

\* The key message with wParam 65553 was forwarded and the one with wParam
\* 2^32 + 17 swallowed; neither sent anything.
C11_Witness ==
    /\ Len(log) = 2
    /\ log[1].msg = Msg(1, WM_SYSKEYUP, Word(VK_CONTROL, 1), Word(1, 49181 + 256))
    /\ ~log[1].block /\ Forwarded(log[1]) /\ log[1].result = 7
    /\ log[2].msg = Msg(2, WM_KEYUP, [lo |-> VK_CONTROL, hi |-> 0, top |-> 1], Word(0, 0))
    /\ log[2].block /\ Swallowed(log[2])
    /\ deq = << >> /\ chan = << >>

(***************************************************************************)
(* C13: what an invocation sends does not depend on should_block_messages: *)
(* two invocations with the same message send the same changes, whatever   *)
(* their flags.                                                            *)
(***************************************************************************)
C13_DecodeIgnoresFlag ==
    \A j, k \in LogIdx : log[j].msg = log[k].msg => log[j].sent = log[k].sent

\* The same key message handled with the flag true and with it false, two
\* changes sent each time.
C13_Witness ==
    /\ Len(log) = 2
    /\ log[1].msg = log[2].msg
    /\ log[1].block /\ ~log[2].block
    /\ Len(log[1].sent) = 2 /\ Len(log[2].sent) = 2
    /\ Len(enq[1]) = 4

(***************************************************************************)
(* C18: decoding does not consume a message: every invocation with a       *)
(* message other than WM_SIZE, decoded or not, calls the original          *)
(* procedure exactly once with the parameters received when the flag is    *)
(* false and never when it is true; no invocation calls it twice.          *)
(***************************************************************************)
C18_DecodedStillForwarded ==
    \A n \in LogIdx :
        /\ Len(log[n].calls) <= 1
        /\ log[n].msg.umsg # WM_SIZE =>
              IF log[n].block THEN log[n].calls = << >> ELSE Forwarded(log[n])

\* A raw mouse report that sent two changes was forwarded, and a character
\* message that sent one was blocked.
C18_Witness ==
    /\ Len(log) = 2
    /\ log[1].msg.umsg = WM_INPUT /\ Len(log[1].sent) = 2
    /\ ~log[1].block /\ Forwarded(log[1])
    /\ log[2].msg.umsg = WM_CHAR /\ Len(log[2].sent) = 1
    /\ log[2].block /\ log[2].calls = << >>

(***************************************************************************)
(* C12: a raw-input notification sends no InputChange, and so leaves the   *)
(* drained snapshot as it would be without it, when the fetch of its       *)
(* payload fails, when the low byte of wParam is not RIM_INPUT, when the   *)
(* device is neither mouse nor keyboard, or when it is a keyboard report   *)
(* with the key code zero.                                                 *)
(***************************************************************************)
DroppedRaw(m) ==
    /\ m.umsg = WM_INPUT
    /\ \/ m.raw.r = U32_MAX
       \/ m.wparam.lo % 256 # RIM_INPUT
       \/ m.raw.dwType \notin {RIM_TYPEMOUSE, RIM_TYPEKEYBOARD}
       \/ m.raw.dwType = RIM_TYPEKEYBOARD /\ m.raw.keyboard.VKey = 0

RECURSIVE KeptSends(_)
\* What the invocations of l other than the dropped notifications sent.
KeptSends(l) ==
    IF l = << >> THEN << >>
    ELSE (IF DroppedRaw(Head(l).msg) THEN << >> ELSE Head(l).sent) \o KeptSends(Tail(l))

C12_DroppedRawInput ==
    /\ \A n \in LogIdx : DroppedRaw(log[n].msg) => log[n].sent = << >>
    /\ Drained => io = FoldIo(InitIo, KeptSends(log))

\* After a press of A was drained, a background report of A arrived and
\* the snapshot is still what the press left.
C12_Witness ==
    /\ Drained
    /\ Len(log) = 2
    /\ log[1].msg = RawKeyboardMsg(65, 30, RI_KEY_MAKE)
    /\ log[2].msg = RawInputMsg(1, RawKeyboard(65, 30, RI_KEY_MAKE))
    /\ io = [InitIo EXCEPT !.keys_down = {65}]

(***************************************************************************)
(* C15: a raw keyboard report with a non-zero key code whose resolved      *)
(* virtual key is below 255 sends a KeyDown with `true` whenever its break *)
(* bit is clear, whatever its E0 / E1 bits, and a KeyDown with `false`     *)
(* whenever its break bit is set.                                          *)
(***************************************************************************)
\* Message m is a raw keyboard report that reaches the key decoding.
DecodedRawKey(m) ==
    /\ m.umsg = WM_INPUT /\ ~DroppedRaw(m)
    /\ m.raw.dwType = RIM_TYPEKEYBOARD
    /\ RawVirtualKey(m.raw.keyboard) < 255

SendsKey(e, pressed) ==
    \E i \in 1 .. Len(e.sent) :
        e.sent[i] = KeyDown(RawVirtualKey(e.msg.raw.keyboard), pressed)

C15_RawKeyMakeBreak ==
    \A n \in LogIdx :
        DecodedRawKey(log[n].msg) =>
            IF HasBit(log[n].msg.raw.keyboard.Flags, RI_KEY_BREAK)
            THEN SendsKey(log[n], FALSE)
            ELSE SendsKey(log[n], TRUE)

(***************************************************************************)
(* C14: every InputChange sent carries an index inside the snapshot's      *)
(* arrays: a MouseDown index is in 0..4 and a KeyDown index in 0..254, so  *)
(* that update_io only ever writes button entries 0..4 and key entries     *)
(* 0..254.                                                                 *)
(***************************************************************************)
IndexInBounds(c) ==
    /\ c.kind = "MouseDown" => c.index \in 0 .. 4
    /\ c.kind = "KeyDown" => c.index \in 0 .. 254

C14_IndicesInBounds ==
    /\ \A t \in Threads : \A i \in 1 .. Len(enq[t]) : IndexInBounds(enq[t][i])
    /\ io.keys_down \subseteq 0 .. 254

(***************************************************************************)
(* C16: a raw mouse report with any combination of the ten button flags    *)
(* sends, for each flag that is set, exactly one MouseDown and one KeyDown *)
(* of that button (indices 0..4 with VK_LBUTTON, VK_RBUTTON, VK_MBUTTON,   *)
(* VK_XBUTTON1, VK_XBUTTON2) carrying the flag's pressed value, and        *)
(* nothing for a flag that is clear; when a button's down and up flags are *)
(* both set its down pair is sent before its up pair, and the button is    *)
(* released once the report is drained.                                    *)
(***************************************************************************)
ButtonKey(i) ==
    CASE i = 0 -> VK_LBUTTON
      [] i = 1 -> VK_RBUTTON
      [] i = 2 -> VK_MBUTTON
      [] i = 3 -> VK_XBUTTON1
      [] i = 4 -> VK_XBUTTON2

\* The positions of change c in the sequence q.
Positions(q, c) == {p \in 1 .. Len(q) : q[p] = c}

\* Change c occurs in q, and all of its occurrences are before those of d.
Before(q, c, d) ==
    /\ Positions(q, c) # {}
    /\ \A p \in Positions(q, c), r \in Positions(q, d) : p < r

C16_RawButtonPairs ==
    /\ \A n \in LogIdx :
          LET m == log[n].msg
              f == m.raw.mouse.usButtonFlags
              sent == log[n].sent
              set == {<<i, v>> \in (0 .. 4) \X BOOLEAN : HasBit(f, RawButtonFlag(i, v))}
          IN  m \in MouseMsgs =>
                 /\ Len(sent) = 2 * Cardinality(set)
                 /\ \A i \in 0 .. 4, v \in BOOLEAN :
                       LET cnt == IF <<i, v>> \in set THEN 1 ELSE 0
                       IN  /\ Cardinality(Positions(sent, MouseDown(i, v))) = cnt
                           /\ Cardinality(Positions(sent, KeyDown(ButtonKey(i), v))) = cnt
                 /\ \A i \in 0 .. 4 :
                       <<i, TRUE>> \in set /\ <<i, FALSE>> \in set =>
                          /\ Before(sent, MouseDown(i, TRUE), MouseDown(i, FALSE))
                          /\ Before(sent, KeyDown(ButtonKey(i), TRUE),
                                    KeyDown(ButtonKey(i), FALSE))
    /\ Drained /\ log # << >> /\ log[Len(log)].msg \in MouseMsgs =>
          \A i \in 0 .. 4 :
             LET f == log[Len(log)].msg.raw.mouse.usButtonFlags
             IN  HasBit(f, RawButtonFlag(i, TRUE)) /\ HasBit(f, RawButtonFlag(i, FALSE)) =>
                    ~io.mouse_down[i] /\ ButtonKey(i) \notin io.keys_down

\* A report that presses the left and the fourth button was drained, then
\* a report with all ten flags: twenty changes, and every button released.
C16_Witness ==
    /\ Drained
    /\ Len(log) = 2
    /\ log[1].msg = RawMouseMsg(RI_MOUSE_LEFT_BUTTON_DOWN + RI_MOUSE_RIGHT_BUTTON_UP
                                + RI_MOUSE_BUTTON_4_DOWN, 0)
    /\ Len(log[1].sent) = 6
    /\ log[2].msg = RawMouseMsg(RI_MOUSE_WHEEL - 1, 0)
    /\ Len(log[2].sent) = 20
    /\ io = InitIo

(***************************************************************************)
(* C17: each legacy mouse button message sends exactly one MouseDown and   *)
(* nothing else: button-down and double-click messages carry `true` with   *)
(* the same index, button-up messages `false`; left, right and middle are  *)
(* the indices 0, 1 and 2, and an extra-button message (down, double click *)
(* or up alike) is index 3 when the high word of wParam is 1 and index 4   *)
(* for every other value.                                                  *)
(***************************************************************************)
LegacyPressed(umsg) ==
    umsg \in {WM_LBUTTONDOWN, WM_LBUTTONDBLCLK, WM_RBUTTONDOWN, WM_RBUTTONDBLCLK,
              WM_MBUTTONDOWN, WM_MBUTTONDBLCLK, WM_XBUTTONDOWN, WM_XBUTTONDBLCLK}

LegacyIndex(m) ==
    CASE m.umsg \in {WM_LBUTTONDOWN, WM_LBUTTONDBLCLK, WM_LBUTTONUP} -> 0
      [] m.umsg \in {WM_RBUTTONDOWN, WM_RBUTTONDBLCLK, WM_RBUTTONUP} -> 1
      [] m.umsg \in {WM_MBUTTONDOWN, WM_MBUTTONDBLCLK, WM_MBUTTONUP} -> 2
      [] m.umsg \in LegacyXTypes -> IF m.wparam.hi = 1 THEN 3 ELSE 4

C17_LegacyButtonMessages ==
    \A n \in LogIdx :
        log[n].msg \in LegacyButtonMsgs =>
            log[n].sent = << MouseDown(LegacyIndex(log[n].msg), LegacyPressed(log[n].msg.umsg)) >>

\* A double click of an extra button with the high word 0 pressed button 4,
\* and an extra-button release with the high word 3 released it.
C17_Witness ==
    /\ Drained
    /\ Len(log) = 2
    /\ log[1].msg = Msg(1, WM_XBUTTONDBLCLK, Word(32, 0), Word(10, 20))
    /\ log[1].sent = << MouseDown(4, TRUE) >>
    /\ log[2].msg = Msg(1, WM_XBUTTONUP, Word(32, 3), Word(10, 20))
    /\ log[2].sent = << MouseDown(4, FALSE) >>
    /\ io = InitIo

(***************************************************************************)
(* C19: starting from the all-released snapshot, after any sequence of     *)
(* legacy key-down / key-up messages has been decoded and drained, the     *)
(* ctrl flag is true exactly when the key state of the left or of the      *)
(* right Control key is true, and likewise the shift, alt and super flags  *)
(* with their left and right keys.                                         *)
(***************************************************************************)
AnyDown(keys) == \E k \in keys : k \in io.keys_down

C19_ModifierFlagsAgree ==
    Drained /\ (\A n \in LogIdx : log[n].msg.umsg \in KeyTypes) =>
        /\ io.key_ctrl <=> AnyDown({VK_LCONTROL, VK_RCONTROL})
        /\ io.key_shift <=> AnyDown({VK_LSHIFT, VK_RSHIFT})
        /\ io.key_alt <=> AnyDown({VK_LMENU, VK_RMENU})
        /\ io.key_super <=> AnyDown({VK_LWIN, VK_RWIN})

(***************************************************************************)
(* C20: for every signed 16-bit wheel value v, multiple of 120 or not, and *)
(* for each axis, the raw path and the legacy path send the same           *)
(* WheelDelta.                                                             *)
(***************************************************************************)
C20_WheelPathsAgree ==
    \A j, k \in LogIdx, axis \in Axes, v \in WheelVals :
        /\ log[j].msg = WheelReport("raw", axis, v)
        /\ log[k].msg = WheelReport("legacy", axis, v)
        => log[j].sent = log[k].sent

=============================================================================
